---- MODULE Spec2Model ----
(***************************************************************************)
(* Model of example/cms-physics-coffea/cms-physics-coffea.ipynb: a driver  *)
(* that installs a warning filter, creates one scheduler handle (DaskVine  *)
(* manager or distributed Client), reads data/small_data.root into a lazy  *)
(* event collection, declares a 100-bin histogram over [0, 200), fills it  *)
(* lazily with events.MET.pt, materializes it with one blocking compute    *)
(* call, plots it and queries the necessary columns.                       *)
(*                                                                         *)
(* The driver's statements are the actions.  The libraries it calls are    *)
(* modelled by their contract: each call either returns or raises, and a   *)
(* raise ends the run because the notebook has no try/except.  The         *)
(* blocking compute call is modelled with its internal steps (one task     *)
(* per partition run by a worker, partial histograms delivered in any      *)
(* order and added up), none of which the driver can observe.              *)
(***************************************************************************)
EXTENDS Integers, Sequences, FiniteSets, Bags

\* ---------------------------------------------------------------- bounds
MaxParts == 2      \* partitions of the input file
MaxEvents == 2     \* events of the input file, over all partitions
MaxRuns == 2       \* executions of the notebook in one behaviour

\* MET values (GeV) an event can carry: below the axis, two values of one
\* bin, the last regular bin, and the upper bound (which is excluded).
METValues == {-1, 0, 1, 199, 200}

\* ------------------------------------------------------- program constants
NBins == 100
Lo == 0
Hi == 200

\* optional values: <<>> is Python's "name not bound yet", <<x>> is a value
None == <<>>
Some(x) == <<x>>

\* ------------------------------------------------------------------ state
VARIABLES
    file,            \* content of data/small_data.root: partitions of MET values
    fileExists,      \* whether data/small_data.root is present
    use_taskvine,    \* the flag of line 21
    pc,              \* the driver's position
    failedAt,        \* the operation whose exception ended the run
    filters,         \* warnings.filters of the driver's interpreter
    warning,         \* the latest warning issued in the driver: <<>> or <<module>>
    handles,         \* scheduler handles created so far, in order
    defaultScheduler,\* dask's default scheduler (a Client registers itself)
    executor_args,   \* keyword options for compute: a set of <<key, value>>
    events,          \* the lazy event collection
    column,          \* the lazy column events.MET.pt
    q1_hist,         \* the lazy histogram
    computeOpts,     \* the keyword options each compute call received
    usedScheduler,   \* the scheduler each compute call ran against
    pending,         \* partitions whose task has not run yet
    ready,           \* partial histograms not yet added up
    acc,             \* the sum of the partial histograms delivered so far
    schedTasks,      \* tasks the scheduler has executed in this run
    result,          \* what compute returned to the driver
    plotted,         \* what plot1d was called on
    columns,         \* what dak.necessary_columns returned
    calls,           \* how often the driver invoked each operation
    run,             \* number of the current execution
    prev             \* the previous completed execution: flag, bins, path

vars == <<file, fileExists, use_taskvine, pc, failedAt, filters, warning,
          handles, defaultScheduler, executor_args, events, column, q1_hist,
          computeOpts, usedScheduler, pending, ready, acc, schedTasks,
          result, plotted, columns, calls, run, prev>>

\* the driver's operations, in program order
OpOrder == <<"filterwarnings", "DaskVine", "Client", "from_root", "Reg",
             "MET.pt", "fill", "compute", "plot1d", "necessary_columns">>
Ops == {OpOrder[i] : i \in 1..Len(OpOrder)}
OpIndex(op) == CHOOSE i \in 1..Len(OpOrder) : OpOrder[i] = op

\* ------------------------------------------------------------ input files
SeqsUpTo(S, n) == UNION {[1..k -> S] : k \in 0..n}
\* files of exactly k partitions holding at most e events in all
RECURSIVE FilesOf(_, _)
FilesOf(k, e) ==
    IF k = 0 THEN {<<>>}
    ELSE UNION { { <<part>> \o rest : rest \in FilesOf(k - 1, e - Len(part)) } :
                 part \in SeqsUpTo(METValues, e) }
Files == UNION { FilesOf(k, MaxEvents) : k \in 0..MaxParts }

\* --------------------------------------------------------------- warnings
\* module names are sequences of characters, so that the filter's regular
\* expression is matched the way Python matches it
CoffeaPrefix == <<"c", "o", "f", "f", "e", "a">>
WarnModules == { CoffeaPrefix,
                 CoffeaPrefix \o <<".", "n", "a", "n", "o">>,
                 <<"u", "p", "r", "o", "o", "t">> }

\* variant: the pattern taken as the whole name (fullmatch of "coffea")
ModuleMatchesExact(name) == name = CoffeaPrefix

\* re.match of the pattern "coffea.*" against a module name: the literal
\* at the start of the name, then anything
ModuleMatches(name) ==
    /\ Len(name) >= Len(CoffeaPrefix)
    /\ SubSeq(name, 1, Len(CoffeaPrefix)) = CoffeaPrefix

\* the filter line 18 installs: every warning category, module "coffea.*"
CoffeaFilter == [action |-> "error", module |-> "coffea.*"]

\* what the interpreter does with a warning from module name: the action of
\* the first filter that matches, and without one the warning is shown and
\* execution continues
WarningAction(fs, name) ==
    LET hits == {i \in 1..Len(fs) : fs[i].module = "coffea.*" /\ ModuleMatches(name)}
    IN  IF hits = {} THEN "default"
        ELSE fs[CHOOSE i \in hits : \A j \in hits : i <= j].action

\* a library call of the driver issues at most one warning: <<>> or <<module>>
MaybeWarning == {None} \cup {Some(m) : m \in WarnModules}
Escalated(fs, w) == w # None /\ WarningAction(fs, w[1]) = "error"

\* -------------------------------------------------------------- histogram
\* variant: the positional arguments of Reg taken as (lo, hi, bins)
RegArgsShifted(n, lo, hi, name) == [nbins |-> hi, lo |-> n, hi |-> lo, name |-> name]

Reg(n, lo, hi, name) == [nbins |-> n, lo |-> lo, hi |-> hi, name |-> name]

\* index of the cell a value falls in: -1 is underflow, nbins is overflow
BinOf(axis, x) ==
    IF x < axis.lo THEN -1
    ELSE IF x >= axis.hi THEN axis.nbins
    ELSE ((x - axis.lo) * axis.nbins) \div (axis.hi - axis.lo)

\* bin contents after filling the values of one partition into h
RECURSIVE FillSeq(_, _, _)
FillSeq(axis, h, vals) ==
    IF vals = <<>> THEN h
    ELSE FillSeq(axis, h (+) SetToBag({BinOf(axis, Head(vals))}), Tail(vals))

PartialHist(axis, part) == FillSeq(axis, EmptyBag, part)

\* variant: a delivered partial histogram replaces the accumulated one
MergeLastWins(a, b) == IF b = EmptyBag THEN a ELSE b

\* adding a delivered partial histogram to the accumulated one
Merge(a, b) == a (+) b

\* --------------------------------------------------------------- the run
\* the state of a fresh kernel, before the first cell
FreshKernel ==
    /\ pc = "filter"
    /\ failedAt = None
    /\ filters = <<>>
    /\ warning = None
    /\ handles = <<>>
    /\ defaultScheduler = None
    /\ executor_args = {}
    /\ events = None
    /\ column = None
    /\ q1_hist = None
    /\ computeOpts = <<>>
    /\ usedScheduler = <<>>
    /\ pending = {}
    /\ ready = {}
    /\ acc = EmptyBag
    /\ schedTasks = 0
    /\ result = None
    /\ plotted = None
    /\ columns = None
    /\ calls = [op \in Ops |-> 0]

Init ==
    /\ fileExists \in BOOLEAN
    /\ file \in (IF fileExists THEN Files ELSE {<<>>})
    /\ use_taskvine \in BOOLEAN
    /\ run = 1
    /\ prev = None
    /\ FreshKernel

Called(op) == calls' = [calls EXCEPT ![op] = @ + 1]

\* variant: the exception is caught and the driver goes on with the next
\* statement
FailSwallowed(op) ==
    /\ failedAt' = Some(op)
    /\ pc' = CASE op \in {"DaskVine", "Client"} -> "read"
               [] op = "from_root" -> "declare"
               [] op = "Reg" -> "derive"
               [] op = "MET.pt" -> "fill"
               [] op = "fill" -> "compute"
               [] op = "compute" -> "plot"
               [] op = "plot1d" -> "columns"
               [] OTHER -> "done"

\* an exception raised inside operation op: nothing catches it, so the cell
\* stops there and no later statement runs
Fail(op) ==
    /\ pc' = "failed"
    /\ failedAt' = Some(op)

\* line 18: warnings.filterwarnings("error", module="coffea.*") puts the
\* filter in front of the interpreter's filters
FilterWarnings ==
    /\ pc = "filter"
    /\ filters' = <<CoffeaFilter>> \o filters
    /\ Called("filterwarnings")
    /\ pc' = "create"
    /\ UNCHANGED <<file, fileExists, use_taskvine, failedAt, warning, handles,
                   defaultScheduler, executor_args, events, column, q1_hist,
                   computeOpts, usedScheduler, pending, ready, acc, schedTasks,
                   result, plotted, columns, run, prev>>

\* variant: line 32 ("task_mode": "function-calls") not commented out
CreateVineManagerTaskMode ==
    /\ pc = "create"
    /\ use_taskvine
    /\ Called("DaskVine")
    /\ \/ /\ handles' = Append(handles, "vine_manager")
          /\ executor_args' = {<<"scheduler", "vine_manager">>,
                               <<"worker_transfers", "True">>,
                               <<"task_mode", "function-calls">>}
          /\ pc' = "read"
          /\ UNCHANGED failedAt
       \/ /\ Fail("DaskVine")
          /\ UNCHANGED <<handles, executor_args>>
    /\ UNCHANGED <<file, fileExists, use_taskvine, filters, warning,
                   defaultScheduler, events, column, q1_hist,
                   computeOpts, usedScheduler, pending, ready, acc, schedTasks,
                   result, plotted, columns, run, prev>>

\* lines 23-33: the DaskVine manager and the options that carry it
CreateVineManager ==
    /\ pc = "create"
    /\ use_taskvine
    /\ Called("DaskVine")
    /\ \/ /\ handles' = Append(handles, "vine_manager")
          /\ executor_args' = {<<"scheduler", "vine_manager">>,
                               <<"worker_transfers", "True">>}
          /\ pc' = "read"
          /\ UNCHANGED failedAt
       \/ /\ Fail("DaskVine")
          /\ UNCHANGED <<handles, executor_args>>
    /\ UNCHANGED <<file, fileExists, use_taskvine, filters, warning,
                   defaultScheduler, events, column, q1_hist,
                   computeOpts, usedScheduler, pending, ready, acc, schedTasks,
                   result, plotted, columns, run, prev>>

\* variant: the Client is created without becoming dask's default scheduler
\* (Client(set_as_default=False))
CreateClientNotDefault ==
    /\ pc = "create"
    /\ ~use_taskvine
    /\ Called("Client")
    /\ \/ /\ handles' = Append(handles, "client")
          /\ executor_args' = {}
          /\ pc' = "read"
          /\ UNCHANGED failedAt
       \/ /\ Fail("Client")
          /\ UNCHANGED <<handles, executor_args>>
    /\ UNCHANGED <<file, fileExists, use_taskvine, filters, warning,
                   defaultScheduler, events, column, q1_hist,
                   computeOpts, usedScheduler, pending, ready, acc, schedTasks,
                   result, plotted, columns, run, prev>>

\* lines 34-38: the distributed Client, which registers itself as dask's
\* default scheduler, and no options
CreateClient ==
    /\ pc = "create"
    /\ ~use_taskvine
    /\ Called("Client")
    /\ \/ /\ handles' = Append(handles, "client")
          /\ defaultScheduler' = Some("client")
          /\ executor_args' = {}
          /\ pc' = "read"
          /\ UNCHANGED failedAt
       \/ /\ Fail("Client")
          /\ UNCHANGED <<handles, defaultScheduler, executor_args>>
    /\ UNCHANGED <<file, fileExists, use_taskvine, filters, warning,
                   events, column, q1_hist,
                   computeOpts, usedScheduler, pending, ready, acc, schedTasks,
                   result, plotted, columns, run, prev>>

\* variant: from_root does not open the file; an absent file reads as a
\* collection without partitions
FromRootNoOpen ==
    /\ pc = "read"
    /\ Called("from_root")
    /\ \/ \E w \in MaybeWarning :
             /\ warning' = w
             /\ IF Escalated(filters, w)
                THEN Fail("from_root") /\ UNCHANGED events
                ELSE /\ events' = Some([tree |-> "/Events",
                                        dataset |-> "SingleMu",
                                        npartitions |-> Len(file)])
                     /\ pc' = "declare"
                     /\ UNCHANGED failedAt
       \/ /\ Fail("from_root")
          /\ UNCHANGED <<events, warning>>
    /\ UNCHANGED <<file, fileExists, use_taskvine, filters, handles,
                   defaultScheduler, executor_args, column, q1_hist,
                   computeOpts, usedScheduler, pending, ready, acc, schedTasks,
                   result, plotted, columns, run, prev>>

\* lines 48-56: NanoEventsFactory.from_root(...).events() opens the file in
\* the driver to read the layout of /Events and returns a lazy collection;
\* an absent file, an escalated warning or any other error raises
FromRoot ==
    /\ pc = "read"
    /\ Called("from_root")
    /\ \/ /\ fileExists
          /\ \E w \in MaybeWarning :
                /\ warning' = w
                /\ IF Escalated(filters, w)
                   THEN Fail("from_root") /\ UNCHANGED events
                   ELSE /\ events' = Some([tree |-> "/Events",
                                           dataset |-> "SingleMu",
                                           npartitions |-> Len(file)])
                        /\ pc' = "declare"
                        /\ UNCHANGED failedAt
       \/ /\ Fail("from_root")
          /\ UNCHANGED <<events, warning>>
    /\ UNCHANGED <<file, fileExists, use_taskvine, filters, handles,
                   defaultScheduler, executor_args, column, q1_hist,
                   computeOpts, usedScheduler, pending, ready, acc, schedTasks,
                   result, plotted, columns, run, prev>>

\* lines 58-60: hda.Hist.new.Reg(100, 0, 200, name="met", ...).Double()
DeclareHist ==
    /\ pc = "declare"
    /\ Called("Reg")
    /\ \/ /\ q1_hist' = Some([axis |-> Reg(NBins, Lo, Hi, "met"),
                              storage |-> "Double", fills |-> <<>>])
          /\ pc' = "derive"
          /\ UNCHANGED failedAt
       \/ /\ Fail("Reg")
          /\ UNCHANGED q1_hist
    /\ UNCHANGED <<file, fileExists, use_taskvine, filters, warning, handles,
                   defaultScheduler, executor_args, events, column,
                   computeOpts, usedScheduler, pending, ready, acc, schedTasks,
                   result, plotted, columns, run, prev>>

\* line 61, the argument: events.MET.pt, a lazy column derived in the driver
DeriveColumn ==
    /\ pc = "derive"
    /\ Called("MET.pt")
    /\ \/ \E w \in MaybeWarning :
             /\ warning' = w
             /\ IF Escalated(filters, w)
                THEN Fail("MET.pt") /\ UNCHANGED column
                ELSE /\ column' = Some("MET.pt")
                     /\ pc' = "fill"
                     /\ UNCHANGED failedAt
       \/ /\ Fail("MET.pt")
          /\ UNCHANGED <<column, warning>>
    /\ UNCHANGED <<file, fileExists, use_taskvine, filters, handles,
                   defaultScheduler, executor_args, events, q1_hist,
                   computeOpts, usedScheduler, pending, ready, acc, schedTasks,
                   result, plotted, columns, run, prev>>

\* variant: fill on an eager histogram, which runs the partitions at once
FillEager ==
    /\ pc = "fill"
    /\ Called("fill")
    /\ \/ /\ q1_hist' = Some([q1_hist[1] EXCEPT !.fills = Append(@, column[1])])
          /\ schedTasks' = schedTasks + Len(file)
          /\ pc' = "compute"
          /\ UNCHANGED failedAt
       \/ /\ Fail("fill")
          /\ UNCHANGED <<q1_hist, schedTasks>>
    /\ UNCHANGED <<file, fileExists, use_taskvine, filters, warning, handles,
                   defaultScheduler, executor_args, events, column,
                   computeOpts, usedScheduler, pending, ready, acc,
                   result, plotted, columns, run, prev>>

\* line 61: .fill(column) on the lazy histogram stages the fill and computes
\* nothing
Fill ==
    /\ pc = "fill"
    /\ Called("fill")
    /\ \/ /\ q1_hist' = Some([q1_hist[1] EXCEPT !.fills = Append(@, column[1])])
          /\ pc' = "compute"
          /\ UNCHANGED failedAt
       \/ /\ Fail("fill")
          /\ UNCHANGED q1_hist
    /\ UNCHANGED <<file, fileExists, use_taskvine, filters, warning, handles,
                   defaultScheduler, executor_args, events, column,
                   computeOpts, usedScheduler, pending, ready, acc, schedTasks,
                   result, plotted, columns, run, prev>>

\* the scheduler a compute call with options args runs against: the
\* "scheduler" option when given, dask's default scheduler otherwise
SchedulerFor(args, default) ==
    IF \E kv \in args : kv[1] = "scheduler"
    THEN Some((CHOOSE kv \in args : kv[1] = "scheduler")[2])
    ELSE default

\* line 64: q1_hist.compute(**executor_args) submits one task per partition
\* and blocks
ComputeCall ==
    /\ pc = "compute"
    /\ Called("compute")
    /\ computeOpts' = Append(computeOpts, executor_args)
    /\ usedScheduler' = Append(usedScheduler,
                               SchedulerFor(executor_args, defaultScheduler))
    /\ pending' = 1..Len(file)
    /\ ready' = {}
    /\ acc' = EmptyBag
    /\ pc' = "computing"
    /\ UNCHANGED <<file, fileExists, use_taskvine, failedAt, filters, warning,
                   handles, defaultScheduler, executor_args, events, column,
                   q1_hist, schedTasks, result, plotted, columns, run, prev>>

\* inside compute: a worker reads partition p and fills its partial histogram
WorkerRun(p) ==
    /\ pc = "computing"
    /\ p \in pending
    /\ pending' = pending \ {p}
    /\ ready' = ready \cup {[part |-> p,
                             bins |-> PartialHist(q1_hist[1].axis, file[p])]}
    /\ schedTasks' = schedTasks + 1
    /\ UNCHANGED <<file, fileExists, use_taskvine, pc, failedAt, filters,
                   warning, handles, defaultScheduler, executor_args, events,
                   column, q1_hist, computeOpts, usedScheduler, acc,
                   result, plotted, columns, calls, run, prev>>

\* variant: with worker-to-worker transfers a partial histogram that moved
\* between workers is added up twice
DeliverTwiceOnTransfer(r) ==
    /\ pc = "computing"
    /\ r \in ready
    /\ ready' = ready \ {r}
    /\ acc' = IF <<"worker_transfers", "True">> \in computeOpts[Len(computeOpts)]
              THEN Merge(Merge(acc, r.bins), r.bins)
              ELSE Merge(acc, r.bins)
    /\ UNCHANGED <<file, fileExists, use_taskvine, pc, failedAt, filters,
                   warning, handles, defaultScheduler, executor_args, events,
                   column, q1_hist, computeOpts, usedScheduler, pending,
                   schedTasks, result, plotted, columns, calls, run, prev>>

\* inside compute: a partial histogram, whichever is ready, is added up
Deliver(r) ==
    /\ pc = "computing"
    /\ r \in ready
    /\ ready' = ready \ {r}
    /\ acc' = Merge(acc, r.bins)
    /\ UNCHANGED <<file, fileExists, use_taskvine, pc, failedAt, filters,
                   warning, handles, defaultScheduler, executor_args, events,
                   column, q1_hist, computeOpts, usedScheduler, pending,
                   schedTasks, result, plotted, columns, calls, run, prev>>

\* variant: compute returns as soon as every task has run
ComputeDoneEarly == pending = {}

\* compute returns once every partial histogram has been added up
ComputeDone == pending = {} /\ ready = {}

\* line 64: compute returns the materialized histogram to the driver
ComputeReturn ==
    /\ pc = "computing"
    /\ ComputeDone
    /\ result' = Some([axis |-> q1_hist[1].axis, bins |-> acc])
    /\ pc' = "plot"
    /\ UNCHANGED <<file, fileExists, use_taskvine, failedAt, filters, warning,
                   handles, defaultScheduler, executor_args, events, column,
                   q1_hist, computeOpts, usedScheduler, pending, ready, acc,
                   schedTasks, plotted, columns, calls, run, prev>>

\* line 64: compute raises (a task failed, the workers were lost); the
\* driver gets no value
ComputeRaise ==
    /\ pc = "computing"
    /\ Fail("compute")
    /\ UNCHANGED <<file, fileExists, use_taskvine, filters, warning,
                   handles, defaultScheduler, executor_args, events, column,
                   q1_hist, computeOpts, usedScheduler, pending, ready, acc,
                   schedTasks, result, plotted, columns, calls, run, prev>>

\* line 64: .plot1d() on the value compute returned
Plot1d ==
    /\ pc = "plot"
    /\ Called("plot1d")
    /\ \/ /\ plotted' = result
          /\ pc' = "columns"
          /\ UNCHANGED failedAt
       \/ /\ Fail("plot1d")
          /\ UNCHANGED plotted
    /\ UNCHANGED <<file, fileExists, use_taskvine, filters, warning, handles,
                   defaultScheduler, executor_args, events, column, q1_hist,
                   computeOpts, usedScheduler, pending, ready, acc, schedTasks,
                   result, columns, run, prev>>

\* line 66: dak.necessary_columns(q1_hist) inspects the task graph of the
\* lazy histogram in the driver
NecessaryColumns ==
    /\ pc = "columns"
    /\ Called("necessary_columns")
    /\ \/ /\ columns' = Some({"MET_pt"})
          /\ pc' = "done"
          /\ UNCHANGED failedAt
       \/ /\ Fail("necessary_columns")
          /\ UNCHANGED columns
    /\ UNCHANGED <<file, fileExists, use_taskvine, filters, warning, handles,
                   defaultScheduler, executor_args, events, column, q1_hist,
                   computeOpts, usedScheduler, pending, ready, acc, schedTasks,
                   result, plotted, run, prev>>

\* the notebook is executed again in a fresh kernel on the same input file,
\* with line 21 set to either value; the handles of the finished run went
\* away with its process
Rerun ==
    /\ pc \in {"done", "failed"}
    /\ run < MaxRuns
    /\ run' = run + 1
    /\ prev' = IF pc = "done"
               THEN Some([flag |-> use_taskvine, bins |-> result[1].bins,
                          scheduler |-> usedScheduler[1],
                          opts |-> computeOpts[1]])
               ELSE prev
    /\ use_taskvine' \in BOOLEAN
    /\ pc' = "filter"
    /\ failedAt' = None
    /\ filters' = <<>>
    /\ warning' = None
    /\ handles' = <<>>
    /\ defaultScheduler' = None
    /\ executor_args' = {}
    /\ events' = None
    /\ column' = None
    /\ q1_hist' = None
    /\ computeOpts' = <<>>
    /\ usedScheduler' = <<>>
    /\ pending' = {}
    /\ ready' = {}
    /\ acc' = EmptyBag
    /\ schedTasks' = 0
    /\ result' = None
    /\ plotted' = None
    /\ columns' = None
    /\ calls' = [op \in Ops |-> 0]
    /\ UNCHANGED <<file, fileExists>>

Next ==
    \/ FilterWarnings
    \/ CreateVineManager
    \/ CreateClient
    \/ FromRoot
    \/ DeclareHist
    \/ DeriveColumn
    \/ Fill
    \/ ComputeCall
    \/ \E p \in 1..MaxParts : WorkerRun(p)
    \/ \E r \in ready : Deliver(r)
    \/ ComputeReturn
    \/ ComputeRaise
    \/ Plot1d
    \/ NecessaryColumns
    \/ Rerun

Spec == Init /\ [][Next]_vars

\* ------------------------------------------------------------- properties
RECURSIVE Flatten(_)
Flatten(f) == IF f = <<>> THEN <<>> ELSE Head(f) \o Flatten(Tail(f))

\* the fill of every event of the collection, one after the other, into the
\* axis the claims name
FullFill == FillSeq([nbins |-> 100, lo |-> 0, hi |-> 200, name |-> "met"],
                    EmptyBag, Flatten(file))

Finished == pc \in {"done", "failed"}
NonEmptyParts == Len(file) >= 2 /\ \A p \in 1..Len(file) : file[p] # <<>>

\* C1: a completed run and the previous completed run on the same file with
\* the other value of use_taskvine have the same bin contents; the scheduler
\* used and the options that reached compute differ.
C1_BackendIndependent ==
    (pc = "done" /\ prev # None /\ prev[1].flag # use_taskvine)
        => /\ result[1].bins = prev[1].bins
           /\ usedScheduler[1] # prev[1].scheduler
           /\ computeOpts[1] # prev[1].opts

C1_Witness ==
    /\ pc = "done" /\ prev # None /\ prev[1].flag # use_taskvine
    /\ NonEmptyParts

\* C2: with data/small_data.root absent no histogram is ever materialized,
\* not even inside compute, none is plotted, the run never completes, and
\* once from_root has been called the run has failed there.
C2_AbsentFileFails ==
    ~fileExists
        => /\ result = None /\ plotted = None
           /\ ready = {} /\ acc = EmptyBag /\ schedTasks = 0
           /\ pc # "done"
           /\ calls["from_root"] > 0
                 => pc = "failed" /\ failedAt = Some("from_root")

C2_Witness == ~fileExists /\ pc = "failed" /\ failedAt = Some("from_root")

\* C3: the histogram compute returned, and the one handed to plot1d, holds
\* the fill of every event of the collection; a compute call that raised
\* left the driver without a histogram.
C3_AllOrNothing ==
    /\ result # None => result[1].bins = FullFill
    /\ plotted # None => plotted[1].bins = FullFill
    /\ failedAt = Some("compute") => result = None /\ plotted = None

C3_Witness == plotted # None /\ NonEmptyParts

\* C4: the lazy histogram and the materialized one have the axis declared on
\* line 59, 100 regular bins over [0, 200): values below 0 are in the
\* underflow cell, values from 200 on in the overflow cell, and every other
\* value v in regular bin v div 2.
C4_Binning ==
    LET ev == Flatten(file)
        n(S) == Cardinality({i \in 1..Len(ev) : ev[i] \in S})
    IN  /\ q1_hist # None
            => q1_hist[1].axis = [nbins |-> 100, lo |-> 0, hi |-> 200, name |-> "met"]
        /\ result # None
            => /\ result[1].axis = [nbins |-> 100, lo |-> 0, hi |-> 200, name |-> "met"]
               /\ BagToSet(result[1].bins) \subseteq -1..100
               /\ CopiesIn(-1, result[1].bins) = n({v \in METValues : v < 0})
               /\ CopiesIn(100, result[1].bins) = n({v \in METValues : v >= 200})
               /\ \A b \in 0..99 :
                     CopiesIn(b, result[1].bins) =
                         n({v \in METValues : 2 * b <= v /\ v < 2 * b + 2})

C4_Witness ==
    /\ result # None
    /\ \E i, j \in 1..Len(Flatten(file)) :
          Flatten(file)[i] = 199 /\ Flatten(file)[j] = 200

\* C5: a completed run and the previous completed run on the same file with
\* the same value of use_taskvine have the same bin contents, in whatever
\* order the partial histograms were delivered.
C5_Deterministic ==
    (pc = "done" /\ prev # None /\ prev[1].flag = use_taskvine)
        => result[1].bins = prev[1].bins

C5_Witness ==
    /\ pc = "done" /\ prev # None /\ prev[1].flag = use_taskvine
    /\ NonEmptyParts

\* C6: before the compute call the scheduler has run no task and no bin
\* contents exist anywhere; the lazy histogram carries staged fills only;
\* plot1d is called only on what compute returned.
C6_Lazy ==
    /\ calls["compute"] = 0
          => /\ schedTasks = 0 /\ pending = {} /\ ready = {}
             /\ acc = EmptyBag /\ result = None
    /\ q1_hist # None => DOMAIN q1_hist[1] = {"axis", "storage", "fills"}
    /\ calls["plot1d"] > 0 => result # None /\ calls["compute"] = 1
    /\ plotted # None => plotted = result

C6_Witness ==
    /\ pc = "compute" /\ q1_hist[1].fills = <<"MET.pt">>
    /\ NonEmptyParts /\ schedTasks = 0

\* C7 as stated: every finished run has created exactly one scheduler
\* handle, of the kind the flag selects, and computed against it.
C7_ExactlyOneHandle ==
    Finished
        => /\ Len(handles) = 1
           /\ handles[1] = IF use_taskvine THEN "vine_manager" ELSE "client"
           /\ \A i \in 1..Len(usedScheduler) : usedScheduler[i] = Some(handles[1])

\* C7 amended: a run creates at most one scheduler handle; once the
\* creation call has returned (the run is past the first cell without having
\* failed in DaskVine or Client) there is exactly one, a DaskVine manager
\* when use_taskvine is true and a Client otherwise; a compute call is made
\* only after that and runs against that handle.
C7_OneHandleOnceCreated ==
    /\ Len(handles) <= 1
    /\ (pc \notin {"filter", "create"}
          /\ failedAt \notin {Some("DaskVine"), Some("Client")})
          => /\ Len(handles) = 1
             /\ handles[1] = IF use_taskvine THEN "vine_manager" ELSE "client"
    /\ calls["compute"] > 0 => Len(handles) = 1 /\ Len(usedScheduler) = 1
    /\ \A i \in 1..Len(usedScheduler) : usedScheduler[i] = Some(handles[1])

C7_Witness ==
    /\ pc = "done" /\ ~use_taskvine
    /\ usedScheduler = <<Some("client")>>

\* C8: no operation is invoked twice in a run; an exception is recorded
\* exactly when the run has failed, it is the exception of the one operation
\* that was running, and no operation after it in program order has been
\* invoked.
C8_FailStop ==
    /\ \A op \in Ops : calls[op] <= 1
    /\ (failedAt # None) <=> (pc = "failed")
    /\ pc = "failed"
          => /\ calls[failedAt[1]] = 1
             /\ \A op \in Ops :
                   OpIndex(op) > OpIndex(failedAt[1]) => calls[op] = 0

C8_Witness ==
    /\ pc = "failed" /\ failedAt = Some("compute")
    /\ acc # EmptyBag

C10_SingleCompute ==
    pc = "done"
        => /\ calls["compute"] = 1
           /\ Len(computeOpts) = 1
           /\ computeOpts[1] = IF use_taskvine
                               THEN {<<"scheduler", handles[1]>>,
                                     <<"worker_transfers", "True">>}
                               ELSE {}
           /\ columns # None
           /\ schedTasks = Len(file)

C10_Witness == pc = "done" /\ use_taskvine /\ NonEmptyParts

====
